---------------------------- MODULE Spec2Model ----------------------------
(***************************************************************************)
(* A model of sharrow/debug.py:                                            *)
(*                                                                         *)
(*   def trunc_repr(thing, n=160):                                         *)
(*       f = n//2                                                          *)
(*       a = repr(thing)                                                   *)
(*       if len(a) < n+20:                                                 *)
(*           return a                                                      *)
(*       return a[:f] + "..." +  a[-f:]                                    *)
(*                                                                         *)
(* A Python str is a sequence of one-character strings.  Each statement of *)
(* the function is one action of the thread that executes it; the locals   *)
(* of a call are per-thread variables named as in the source.              *)
(***************************************************************************)
EXTENDS Integers, Sequences, FiniteSets, TLC

VARIABLES
    pc,            \* pc[t]: the statement thread t executes next
    thing,         \* thing[t]: parameter thing of t's call
    arg,           \* arg[t]: the limit the caller passed, or Omitted
    n,             \* n[t]: parameter n of t's call
    f,             \* f[t]: local f
    a,             \* a[t]: local a
    bound,         \* bound[t]: the locals of t's frame that are bound
    ret,           \* ret[t]: the string the call returned
    exc,           \* exc[t]: the exception the call raised
    depth,         \* depth[t]: how many times the result was fed back in
    module_state   \* the module's global state that outlives a call

vars == <<pc, thing, arg, n, f, a, bound, ret, exc, depth, module_state>>

-----------------------------------------------------------------------------
(* Bounds of the model and constants of the program *)

MaxLen == 24          \* longest str value, in characters
MaxLimit == 6         \* largest explicit limit
MaxNegLimit == 3      \* explicit limits go down to -MaxNegLimit
MaxInt == 12          \* int values are -MaxInt..MaxInt
MaxListLen == 9       \* longest list value, list(range(MaxListLen))
Margin == 2           \* str values around the default threshold
MaxDepth == 2         \* how many times a result is fed back in
NThreads == 2         \* concurrent callers

DefaultLimit == 160   \* n=160
Grace == 20           \* n+20

Omitted == [given |-> FALSE, limit |-> 0]  \* the caller passed no limit
Given(k) == [given |-> TRUE, limit |-> k]   \* the caller passed limit k
NoResult == <<"<no result>">>
NoExc == "None"

-----------------------------------------------------------------------------
(* Python values and repr() *)

IntValue(i) == [kind |-> "int", val |-> i, chars |-> <<>>, raises |-> NoExc]
StrValue(s) == [kind |-> "str", val |-> 0, chars |-> s, raises |-> NoExc]
RangeList(k) == [kind |-> "list", val |-> k, chars |-> <<>>, raises |-> NoExc]
BadValue(e) == [kind |-> "object", val |-> 0, chars |-> <<>>, raises |-> e]

Digit(d) == <<"0", "1", "2", "3", "4", "5", "6", "7", "8", "9">>[d + 1]

RECURSIVE Decimal(_)
Decimal(i) ==
    IF i < 0 THEN <<"-">> \o Decimal(0 - i)
    ELSE IF i < 10 THEN <<Digit(i)>>
    ELSE Decimal(i \div 10) \o <<Digit(i % 10)>>

Contains(s, c) == \E i \in 1..Len(s) : s[i] = c

\* Whether repr() writes character c as a backslash escape inside quotes q
NeedsEscape(c, q) == c = q \/ c = "\\" \/ c = "\n" \/ c = "\t"

\* The character that follows the backslash of c's escape
EscapeLetter(c) == IF c = "\n" THEN "n" ELSE IF c = "\t" THEN "t" ELSE c

Skip == ""

\* The characters of s, each one escaped where it has to be: two slots per
\* character, the first of them used only by an escape
EscapeAll(s, q) ==
    LET slots == [k \in 1..(2 * Len(s)) |->
                    LET c == s[(k + 1) \div 2]
                    IN IF k % 2 = 0
                       THEN (IF NeedsEscape(c, q) THEN EscapeLetter(c) ELSE c)
                       ELSE (IF NeedsEscape(c, q) THEN "\\" ELSE Skip)]
    IN SelectSeq(slots, LAMBDA c : c # Skip)

Quoted(s, q) == <<q>> \o EscapeAll(s, q) \o <<q>>

\* repr() of a str: in double quotes only when the str holds ' and no "
StrRepr(s) ==
    IF Contains(s, "'") /\ ~Contains(s, "\"")
    THEN Quoted(s, "\"") ELSE Quoted(s, "'")

\* repr(list(range(k))): "[0, 1, 2]"
RECURSIVE RangeItems(_)
RangeItems(k) ==
    IF k = 0 THEN <<>>
    ELSE IF k = 1 THEN Decimal(0)
    ELSE RangeItems(k - 1) \o <<",", " ">> \o Decimal(k - 1)

ListRepr(k) == <<"[">> \o RangeItems(k) \o <<"]">>

Raised(e) == [ok |-> FALSE, str |-> <<>>, exc |-> e]
Returned(s) == [ok |-> TRUE, str |-> s, exc |-> NoExc]

\* Mutant of Repr: a str is taken as it is, as str(thing) would
Repr_AsStr(v) ==
    CASE v.kind = "int" -> Returned(Decimal(v.val))
      [] v.kind = "str" -> Returned(v.chars)
      [] v.kind = "list" -> Returned(ListRepr(v.val))
      [] OTHER -> Raised(v.raises)

\* repr(thing): the string, or the exception the value's __repr__ raises
Repr(v) ==
    CASE v.kind = "int" -> Returned(Decimal(v.val))
      [] v.kind = "str" -> Returned(StrRepr(v.chars))
      [] v.kind = "list" -> Returned(ListRepr(v.val))
      [] OTHER -> Raised(v.raises)

-----------------------------------------------------------------------------
(* Python integer and slice arithmetic *)

Max(x, y) == IF x >= y THEN x ELSE y
Min(x, y) == IF x <= y THEN x ELSE y

\* x // y for y > 0: the quotient rounded towards minus infinity
FloorDiv(x, y) ==
    IF x >= 0 THEN x \div y ELSE 0 - (((0 - x) + (y - 1)) \div y)

\* A slice index clamped as PySlice_AdjustIndices does: a negative index
\* counts from the end, and the result lies in 0..len.
Clamp(i, len) == IF i < 0 THEN Max(len + i, 0) ELSE Min(i, len)

\* s[:k]
SliceTo(s, k) == SubSeq(s, 1, Clamp(k, Len(s)))

\* s[k:]
SliceFrom(s, k) == SubSeq(s, Clamp(k, Len(s)) + 1, Len(s))

Ellipsis == <<".", ".", ".">>

\* Mutant of BindLimit: the default is taken to be the half-width
BindLimit_Default80(x) == IF x.given THEN x.limit ELSE 80

\* n=160: the limit a call runs with
BindLimit(x) == IF x.given THEN x.limit ELSE DefaultLimit

\* Mutant of UnderThreshold: no grace margin
UnderThreshold_NoGrace(s, lim) == Len(s) < lim

\* len(a) < n+20
UnderThreshold(s, lim) == Len(s) < lim + Grace

\* a[:f] + "..." + a[-f:]
Truncated(s, half) == SliceTo(s, half) \o Ellipsis \o SliceFrom(s, 0 - half)

\* trunc_repr(v, lim) run from its first statement to its last, alone
TruncRepr(v, lim) ==
    LET half == FloorDiv(lim, 2)
        r == Repr(v)
    IN IF ~r.ok THEN r
       ELSE IF UnderThreshold(r.str, lim) THEN Returned(r.str)
       ELSE Returned(Truncated(r.str, half))

-----------------------------------------------------------------------------
(* Inputs *)

Patterns == {
    <<"a", "b", "c", "d", "e", "f", "g">>,
    <<"x">>,
    <<"i", "t", "'", "s">>,
    <<"'", "\"", "\\", "z">>,
    <<"l", "\n", ".">> }

\* The str of length len that repeats pattern p
Fill(p, len) == [i \in 1..len |-> p[((i - 1) % Len(p)) + 1]]

NearDefault ==
    (DefaultLimit + Grace - 2 - Margin)..(DefaultLimit + Grace - 2 + Margin)

StrValues ==
    {StrValue(Fill(p, len)) : p \in Patterns, len \in 0..MaxLen}
    \cup {StrValue(Fill(p, len)) : p \in Patterns, len \in NearDefault}

Values ==
    StrValues
    \cup {IntValue(i) : i \in (0 - MaxInt)..MaxInt}
    \cup {RangeList(k) : k \in 0..MaxListLen}
    \cup {BadValue(e) : e \in {"ValueError", "RecursionError"}}

Limits == (0 - MaxNegLimit)..MaxLimit

Args == {Given(k) : k \in Limits} \cup {Omitted}

Main == {1}
Threads == 1..NThreads

SmallValues ==
    {StrValue(Fill(<<"a", "b", "c", "d", "e", "f", "g">>, len)) : len \in {3, 22}}
    \cup {RangeList(8), BadValue("ValueError")}

SmallArgs == {Given(0), Given(4)}

-----------------------------------------------------------------------------
(* The statements of trunc_repr *)

Idle(t) == pc[t] = "idle"

\* def trunc_repr(thing, n=160): a call binds the parameters in a new frame
Call(t, v, x) ==
    /\ pc' = [pc EXCEPT ![t] = "l2"]
    /\ thing' = [thing EXCEPT ![t] = v]
    /\ arg' = [arg EXCEPT ![t] = x]
    /\ n' = [n EXCEPT ![t] = BindLimit(x)]
    /\ f' = [f EXCEPT ![t] = 0]
    /\ a' = [a EXCEPT ![t] = <<>>]
    /\ bound' = [bound EXCEPT ![t] = {}]
    /\ ret' = [ret EXCEPT ![t] = NoResult]
    /\ exc' = [exc EXCEPT ![t] = NoExc]
    /\ UNCHANGED module_state

\* A caller calls trunc_repr(v, x) or trunc_repr(v)
Enter(t) ==
    /\ Idle(t)
    /\ \E v \in Values, x \in Args : Call(t, v, x)
    /\ depth' = [depth EXCEPT ![t] = 0]

\* A caller calls trunc_repr(r, x) on the str r the last call returned
ReEnter(t) ==
    /\ pc[t] = "done"
    /\ depth[t] < MaxDepth
    /\ Call(t, StrValue(ret[t]), arg[t])
    /\ depth' = [depth EXCEPT ![t] = depth[t] + 1]

\* One of several concurrent callers calls trunc_repr
EnterConc(t) ==
    /\ Idle(t)
    /\ \E v \in SmallValues, x \in SmallArgs : Call(t, v, x)
    /\ UNCHANGED depth

\* The call is over: its frame is dropped, and the caller is done with
\* what it returned or raised
Discard(t) ==
    /\ pc[t] \in {"done", "raised"}
    /\ pc' = [pc EXCEPT ![t] = "idle"]
    /\ thing' = [thing EXCEPT ![t] = IntValue(0)]
    /\ arg' = [arg EXCEPT ![t] = Omitted]
    /\ n' = [n EXCEPT ![t] = DefaultLimit]
    /\ f' = [f EXCEPT ![t] = 0]
    /\ a' = [a EXCEPT ![t] = <<>>]
    /\ bound' = [bound EXCEPT ![t] = {}]
    /\ ret' = [ret EXCEPT ![t] = NoResult]
    /\ exc' = [exc EXCEPT ![t] = NoExc]
    /\ depth' = [depth EXCEPT ![t] = 0]
    /\ UNCHANGED module_state

\* Mutant of Line2: a negative limit is rejected
Line2_Validating(t) ==
    /\ pc[t] = "l2"
    /\ IF n[t] < 0
       THEN /\ exc' = [exc EXCEPT ![t] = "ValueError"]
            /\ pc' = [pc EXCEPT ![t] = "raised"]
            /\ UNCHANGED <<f, bound>>
       ELSE /\ f' = [f EXCEPT ![t] = FloorDiv(n[t], 2)]
            /\ bound' = [bound EXCEPT ![t] = bound[t] \cup {"f"}]
            /\ pc' = [pc EXCEPT ![t] = "l3"]
            /\ UNCHANGED exc
    /\ UNCHANGED <<thing, arg, n, a, ret, depth, module_state>>

\* f = n//2
Line2(t) ==
    /\ pc[t] = "l2"
    /\ f' = [f EXCEPT ![t] = FloorDiv(n[t], 2)]
    /\ bound' = [bound EXCEPT ![t] = bound[t] \cup {"f"}]
    /\ pc' = [pc EXCEPT ![t] = "l3"]
    /\ UNCHANGED <<thing, arg, n, a, ret, exc, depth, module_state>>

\* Mutant of Line3: a failing repr is replaced by a placeholder
Line3_Recovering(t) ==
    /\ pc[t] = "l3"
    /\ LET r == Repr(thing[t]) IN
         a' = [a EXCEPT ![t] = IF r.ok THEN r.str ELSE <<"<", "?", ">">>]
    /\ bound' = [bound EXCEPT ![t] = bound[t] \cup {"a"}]
    /\ pc' = [pc EXCEPT ![t] = "l4"]
    /\ UNCHANGED <<thing, arg, n, f, ret, exc, depth, module_state>>

\* Mutant of Line3: the representation is kept in a module-level cache
Line3_Memoised(t) ==
    /\ pc[t] = "l3"
    /\ LET r == Repr(thing[t]) IN
         IF r.ok
         THEN /\ a' = [a EXCEPT ![t] =
                        IF module_state = {} THEN r.str
                        ELSE CHOOSE c \in module_state : TRUE]
              /\ module_state' = IF module_state = {} THEN {r.str} ELSE module_state
              /\ bound' = [bound EXCEPT ![t] = bound[t] \cup {"a"}]
              /\ pc' = [pc EXCEPT ![t] = "l4"]
              /\ UNCHANGED exc
         ELSE /\ exc' = [exc EXCEPT ![t] = r.exc]
              /\ pc' = [pc EXCEPT ![t] = "raised"]
              /\ UNCHANGED <<a, bound, module_state>>
    /\ UNCHANGED <<thing, arg, n, f, ret, depth>>

\* Mutant of Line3: a is one variable that all callers share
Line3_SharedLocal(t) ==
    /\ pc[t] = "l3"
    /\ LET r == Repr(thing[t]) IN
         IF r.ok
         THEN /\ a' = [u \in DOMAIN a |-> r.str]
              /\ bound' = [bound EXCEPT ![t] = bound[t] \cup {"a"}]
              /\ pc' = [pc EXCEPT ![t] = "l4"]
              /\ UNCHANGED exc
         ELSE /\ exc' = [exc EXCEPT ![t] = r.exc]
              /\ pc' = [pc EXCEPT ![t] = "raised"]
              /\ UNCHANGED <<a, bound>>
    /\ UNCHANGED <<thing, arg, n, f, ret, depth, module_state>>

\* a = repr(thing)
Line3(t) ==
    /\ pc[t] = "l3"
    /\ LET r == Repr(thing[t]) IN
         IF r.ok
         THEN /\ a' = [a EXCEPT ![t] = r.str]
              /\ bound' = [bound EXCEPT ![t] = bound[t] \cup {"a"}]
              /\ pc' = [pc EXCEPT ![t] = "l4"]
              /\ UNCHANGED exc
         ELSE /\ exc' = [exc EXCEPT ![t] = r.exc]
              /\ pc' = [pc EXCEPT ![t] = "raised"]
              /\ UNCHANGED <<a, bound>>
    /\ UNCHANGED <<thing, arg, n, f, ret, depth, module_state>>

\* if len(a) < n+20:
Line4(t) ==
    /\ pc[t] = "l4"
    /\ pc' = [pc EXCEPT ![t] = IF UnderThreshold(a[t], n[t]) THEN "l5" ELSE "l6"]
    /\ UNCHANGED <<thing, arg, n, f, a, bound, ret, exc, depth, module_state>>

\* return a
Line5(t) ==
    /\ pc[t] = "l5"
    /\ ret' = [ret EXCEPT ![t] = a[t]]
    /\ pc' = [pc EXCEPT ![t] = "done"]
    /\ UNCHANGED <<thing, arg, n, f, a, bound, exc, depth, module_state>>

\* return a[:f] + "..." +  a[-f:]
Line6(t) ==
    /\ pc[t] = "l6"
    /\ ret' = [ret EXCEPT ![t] = Truncated(a[t], f[t])]
    /\ pc' = [pc EXCEPT ![t] = "done"]
    /\ UNCHANGED <<thing, arg, n, f, a, bound, exc, depth, module_state>>

Step(t) == Line2(t) \/ Line3(t) \/ Line4(t) \/ Line5(t) \/ Line6(t)

-----------------------------------------------------------------------------
(* Specifications *)

InitFor(T) ==
    /\ pc = [t \in T |-> "idle"]
    /\ thing = [t \in T |-> IntValue(0)]
    /\ arg = [t \in T |-> Omitted]
    /\ n = [t \in T |-> DefaultLimit]
    /\ f = [t \in T |-> 0]
    /\ a = [t \in T |-> <<>>]
    /\ bound = [t \in T |-> {}]
    /\ ret = [t \in T |-> NoResult]
    /\ exc = [t \in T |-> NoExc]
    /\ depth = [t \in T |-> 0]
    /\ module_state = {}

Init == InitFor(Main)

InitConc == InitFor(Threads)

Next ==
    \/ \E t \in Main : Enter(t)
    \/ \E t \in Main : ReEnter(t)
    \/ \E t \in Main : Line2(t)
    \/ \E t \in Main : Line3(t)
    \/ \E t \in Main : Line4(t)
    \/ \E t \in Main : Line5(t)
    \/ \E t \in Main : Line6(t)
    \/ \E t \in Main : Discard(t)

NextConc ==
    \/ \E t \in Threads : EnterConc(t)
    \/ \E t \in Threads : Line2(t)
    \/ \E t \in Threads : Line3(t)
    \/ \E t \in Threads : Line4(t)
    \/ \E t \in Threads : Line5(t)
    \/ \E t \in Threads : Line6(t)
    \/ \E t \in Threads : Discard(t)

\* One caller, calling again and again
Spec == Init /\ [][Next]_vars

\* Several callers at once
SpecConc == InitConc /\ [][NextConc]_vars

-----------------------------------------------------------------------------
(* Properties *)

InCall == {"l2", "l3", "l4", "l5", "l6"}

\* The full textual representation of the value of t's call
Full(t) == Repr(thing[t]).str
ReprOk(t) == Repr(thing[t]).ok

\* t's call has returned a string for a value that has a representation
Done(t) == pc[t] = "done" /\ ReprOk(t)

FirstChars(s, k) == [i \in 1..k |-> s[i]]
LastChars(s, k) == [i \in 1..k |-> s[Len(s) - k + i]]

\* The str that a quoted representation denotes: the quotes removed and
\* each escape sequence replaced by the character it stands for
Unquote(q) ==
    LET b == [i \in 1..(Len(q) - 2) |-> q[i + 1]]
        Stop(i) == {j \in 0..(i - 1) : j = 0 \/ b[j] # "\\"}
        Run(i) == (i - 1) - (CHOOSE j \in Stop(i) : \A k \in Stop(i) : k <= j)
        Escaper(i) == b[i] = "\\" /\ Run(i) % 2 = 0
        kept == SelectSeq([i \in 1..Len(b) |-> i], LAMBDA i : ~Escaper(i))
        Decode(i) ==
            IF i > 1 /\ Escaper(i - 1)
            THEN (IF b[i] = "n" THEN "\n" ELSE IF b[i] = "t" THEN "\t" ELSE b[i])
            ELSE b[i]
    IN [k \in 1..Len(kept) |-> Decode(kept[k])]

\* C1: a representation shorter than limit + 20 (limit >= 0) is returned
\* exactly, also when its length is limit or more.
C1_ShortReprExact ==
    \A t \in DOMAIN pc :
        Done(t) /\ n[t] >= 0 /\ Len(Full(t)) < n[t] + 20 => ret[t] = Full(t)

C1_Witness ==
    \E t \in DOMAIN pc :
        /\ Done(t) /\ n[t] >= 1
        /\ Len(Full(t)) >= n[t] /\ Len(Full(t)) <= n[t] + 19
        /\ ret[t] = Full(t)

\* C2: a representation of limit + 20 characters or more (limit >= 0) is
\* returned as its first limit//2 characters, "...", and its last limit//2
\* characters, both empty when limit//2 = 0.
C2_TruncatedShape ==
    \A t \in DOMAIN pc :
        Done(t) /\ n[t] >= 0 /\ Len(Full(t)) >= n[t] + 20 =>
            ret[t] = FirstChars(Full(t), n[t] \div 2) \o <<".", ".", ".">>
                       \o LastChars(Full(t), n[t] \div 2)

\* C3: for limit >= 0 the result has length L when L < limit + 20 and
\* length 2*(limit//2) + 3 when L >= limit + 20, limits 0 and 1 included.
C3_ResultLength ==
    \A t \in DOMAIN pc :
        Done(t) /\ n[t] >= 0 =>
            Len(ret[t]) = IF Len(Full(t)) < n[t] + 20 THEN Len(Full(t))
                          ELSE 2 * (n[t] \div 2) + 3

\* C4 as claimed: truncating again a result r that is shorter than
\* limit + 20, with the same limit, returns r unchanged.
C4_RetruncationFixedPoint ==
    \A t \in DOMAIN pc :
        Done(t) /\ depth[t] >= 1 /\ Len(thing[t].chars) < n[t] + 20 =>
            ret[t] = thing[t].chars

\* C4 as amended: truncating again a result r whose own representation (r
\* in quotes, its quotes and backslashes escaped) is shorter than
\* limit + 20 returns that representation: it denotes r, is at least two
\* characters longer than r, and so is not r.
C4_RetruncationQuotes ==
    \A t \in DOMAIN pc :
        Done(t) /\ depth[t] >= 1 /\ Len(StrRepr(thing[t].chars)) < n[t] + 20 =>
            /\ ret[t] = StrRepr(thing[t].chars)
            /\ Unquote(ret[t]) = thing[t].chars
            /\ Len(ret[t]) >= Len(thing[t].chars) + 2
            /\ ret[t] # thing[t].chars

C4_Witness ==
    \E t \in DOMAIN pc :
        /\ Done(t) /\ depth[t] >= 1
        /\ Len(thing[t].chars) = 2 * (n[t] \div 2) + 3
        /\ n[t] >= 2
        /\ Len(StrRepr(thing[t].chars)) < n[t] + 20
        /\ Len(ret[t]) > Len(thing[t].chars) + 2

\* C5: when the representation of the value fails, the call ends in that
\* failure whatever the limit: it returns nothing and runs no further
\* statement.
C5_ReprFailurePropagates ==
    \A t \in DOMAIN pc :
        ~ReprOk(t) /\ pc[t] \notin {"idle", "l2", "l3"} =>
            /\ pc[t] = "raised"
            /\ exc[t] = thing[t].raises
            /\ ret[t] = NoResult

C5_Witness ==
    \E t \in DOMAIN pc :
        /\ pc[t] = "raised" /\ exc[t] = "RecursionError"
        /\ arg[t].given /\ n[t] < 0

Rank(p) ==
    CASE p = "l2" -> 1 [] p = "l3" -> 2 [] p = "l4" -> 3 [] p = "l5" -> 4
      [] p = "l6" -> 4 [] OTHER -> 5

C6_NoError ==
    \A t \in DOMAIN pc :
        pc[t] # "idle" /\ ReprOk(t) =>
            /\ pc[t] # "raised"
            /\ exc[t] = NoExc
            /\ pc[t] \in InCall => ENABLED Step(t)
            /\ pc[t] = "done" =>
                 /\ ret[t] # NoResult
                 /\ LET full == Full(t)
                        chars == {full[j] : j \in 1..Len(full)} \cup {"."}
                    IN {ret[t][i] : i \in 1..Len(ret[t])} \subseteq chars

C6_Progress ==
    \A t \in DOMAIN pc :
        pc[t] \in InCall /\ pc'[t] # pc[t] => Rank(pc'[t]) > Rank(pc[t])

\* C6: for a value that has a representation and any integer limit,
\* negative ones included, the call raises nothing, can always take its
\* next statement, moves forward with each one, and ends returning a string.
C6_NoOwnError == [](C6_NoError) /\ [][C6_Progress]_vars

C6_Witness ==
    \E t \in DOMAIN pc :
        /\ Done(t) /\ n[t] < 0 /\ f[t] < 0
        /\ Len(Full(t)) >= n[t] + 20
        /\ ret[t] # NoResult /\ ret[t] # Full(t)

\* C7: a call without a limit returns a representation shorter than 180
\* characters unchanged, and a longer one as its first 80 characters, "...",
\* and its last 80 characters, 163 characters in all.
C7_DefaultLimit ==
    \A t \in DOMAIN pc :
        Done(t) /\ ~arg[t].given =>
            IF Len(Full(t)) < 180 THEN ret[t] = Full(t)
            ELSE /\ ret[t] = FirstChars(Full(t), 80) \o <<".", ".", ".">>
                               \o LastChars(Full(t), 80)
                 /\ Len(ret[t]) = 163

C7_Witness ==
    \E t \in DOMAIN pc :
        /\ Done(t) /\ ~arg[t].given /\ depth[t] = 0
        /\ Len(Full(t)) = 180
        /\ Len(ret[t]) = 163

C8_ResultOfInputsOnly ==
    \A t \in DOMAIN pc :
        /\ pc[t] = "done" => ret[t] = TruncRepr(thing[t], n[t]).str
        /\ module_state = {}

C8_Frame ==
    /\ module_state' = module_state
    /\ \A t \in DOMAIN pc :
        pc[t] \in InCall =>
            thing'[t] = thing[t] /\ arg'[t] = arg[t] /\ n'[t] = n[t]

\* C8: a call changes neither the value, nor the limit, nor any state that
\* outlives it, and what it returns is decided by the value and the limit
\* alone, whatever calls came before.
C8_PureStateless == [](C8_ResultOfInputsOnly) /\ [][C8_Frame]_vars

C8_Witness ==
    \E t \in DOMAIN pc :
        /\ Done(t) /\ depth[t] = MaxDepth
        /\ module_state = {}
        /\ ret[t] = TruncRepr(thing[t], n[t]).str
        /\ ret[t] # Full(t)

\* C9: under every interleaving of the statements of concurrent calls, each
\* call ends as it would when run alone on its own value and limit.
C9_ConcurrentAsAlone ==
    \A t \in DOMAIN pc :
        /\ pc[t] = "done" => TruncRepr(thing[t], n[t]) = Returned(ret[t])
        /\ pc[t] = "raised" => TruncRepr(thing[t], n[t]) = Raised(exc[t])

C9_Witness ==
    \E t, u \in DOMAIN pc :
        /\ t # u
        /\ pc[t] = "done" /\ pc[u] \in {"l4", "l6"}
        /\ thing[t] # thing[u] /\ n[t] # n[u]
        /\ ret[t] # Full(t)
        /\ a[u] # a[t]

\* C10: when a call truncates (L >= limit + 20, limit >= 0) the kept prefix
\* and suffix do not overlap, at least 20 characters are left out, and the
\* result is at least 17 characters shorter than the representation and
\* shorter than limit + 20.
C10_TruncationShortens ==
    \A t \in DOMAIN pc :
        Done(t) /\ n[t] >= 0 /\ Len(Full(t)) >= n[t] + 20 =>
            /\ 2 * (n[t] \div 2) + 20 <= Len(Full(t))
            /\ Len(ret[t]) - 3 + 20 <= Len(Full(t))
            /\ Len(ret[t]) + 17 <= Len(Full(t))
            /\ Len(ret[t]) < n[t] + 20

=============================================================================
